---------------------------- MODULE Spec2Model ----------------------------
(***************************************************************************)
(* Model of src/stt.py: the realtime microphone transcription client.      *)
(*                                                                         *)
(*   main()  -> asyncio.run(run(args)) -> connect -> with stream:          *)
(*              gather(send_audio, receive_events) -> finally: close       *)
(*                                                                         *)
(* The capture thread hands frames to the event loop (call_soon_threadsafe)*)
(* where enqueue() puts them into the bounded audio_queue; send_audio      *)
(* drains the queue, receive_events renders inbound events.                *)
(*                                                                         *)
(* A frame is identified by its capture number 1, 2, 3, ...  Time is the   *)
(* event loop's monotonic clock, in whole ticks.                           *)
(***************************************************************************)
EXTENDS Integers, Sequences, FiniteSets, TLC

VARIABLES
    args,                 \* parsed command line (argparse.Namespace)
    missing_deps,         \* MISSING_DEPS is non-empty
    env_key,              \* os.getenv("ELEVENLABS_API_KEY")
    home_env,             \* the file ~/.env: whether it exists, and its lines
    budget,               \* what the environment supplies in this run
    pc,                   \* position of main() / run()
    exc,                  \* exception travelling out of run()
    exit_code,            \* << >> until main() returns, then << its return value >>
    connects,             \* calls of websockets.connect so far
    connect_log,          \* how each of those calls ended, in order
    conn,                 \* state of the websocket connection
    close_calls,          \* calls of websocket.close() so far
    stream_active,        \* the sd.InputStream is started
    clock,                \* loop.time()
    captured,             \* frames delivered by the capture callback so far
    handoff,              \* enqueue callbacks scheduled on the loop, FIFO
    audio_queue,          \* asyncio.Queue(maxsize=32)
    queue_error,          \* put_nowait raised QueueFull inside enqueue
    evicted,              \* frames removed from the queue by enqueue
    pc_send,              \* position of the send_audio task
    chunk,                \* frame held by send_audio
    payload,              \* message being sent
    first_chunk,          \* send_audio local
    last_commit_at,       \* send_audio local
    send_started_at,      \* loop time at which send_audio started
    sent,                 \* messages handed to websocket.send, in order
    sent_at,              \* loop time at which each of them was dequeued
    pc_recv,              \* position of the receive_events task
    partial_line_active,  \* receive_events local
    received,             \* inbound events consumed by receive_events, in order
    out                   \* writes to the terminal, in order

vars ==
    << args, missing_deps, env_key, home_env, budget, pc, exc, exit_code,
       connects, connect_log, conn, close_calls, stream_active, clock, captured, handoff,
       audio_queue, queue_error, evicted, pc_send, chunk, payload,
       first_chunk, last_commit_at, send_started_at, sent, sent_at, pc_recv,
       partial_line_active, received, out >>

mainVars == << pc, exc, exit_code, connects, connect_log, conn, close_calls, stream_active >>
captureVars == << captured, handoff >>
queueVars == << audio_queue, queue_error, evicted >>
senderVars ==
    << pc_send, chunk, payload, first_chunk, last_commit_at, send_started_at,
       sent, sent_at >>
receiverVars == << pc_recv, partial_line_active, received, out >>
inputVars == << args, missing_deps, env_key, home_env, budget >>

-----------------------------------------------------------------------------
(* Bounds of the model. *)

MaxFrames == 34
MaxPending == 2
MaxEvents == 3
MaxTime == 2
FewFrames == 3

(* Program constants. *)

QueueMaxSize == 32
DefaultSampleRate == 16000

None == "None"

-----------------------------------------------------------------------------
(* Pure helpers. *)

Truthy(s) ==
    s # None /\ s # ""

Last(s) ==
    s[Len(s)]

B64(c) ==
    << "b64", c >>

IsSpace(ch) ==
    ch = " "

RECURSIVE LStrip(_)
LStrip(s) ==
    IF s # << >> /\ IsSpace(Head(s)) THEN LStrip(Tail(s)) ELSE s

RECURSIVE RStrip(_)
RStrip(s) ==
    IF s # << >> /\ IsSpace(Last(s)) THEN RStrip(SubSeq(s, 1, Len(s) - 1)) ELSE s

Strip(s) ==
    RStrip(LStrip(s))

EventText(event) ==
    IF "text" \in DOMAIN event THEN event.text ELSE << >>

MsgType(event) ==
    IF "message_type" \in DOMAIN event THEN event.message_type ELSE ""

TranscriptTypes ==
    { "committed_transcript", "committed_transcript_with_timestamps" }

ErrorTypes ==
    { "error", "auth_error" }

ContainsError(msg_type) ==
    msg_type \in ErrorTypes

(* A line of ~/.env is a sequence of tokens: " ", "#", "=", "'", "\"",     *)
(* the name ELEVENLABS_API_KEY, another name, or a character of a value.   *)

KeyName ==
    "ELEVENLABS_API_KEY"

RECURSIVE LStripCh(_, _)
LStripCh(s, ch) ==
    IF s # << >> /\ Head(s) = ch THEN LStripCh(Tail(s), ch) ELSE s

RECURSIVE RStripCh(_, _)
RStripCh(s, ch) ==
    IF s # << >> /\ Last(s) = ch THEN RStripCh(SubSeq(s, 1, Len(s) - 1), ch) ELSE s

(* str.strip(ch) *)
StripCh(s, ch) ==
    RStripCh(LStripCh(s, ch), ch)

(* Index of the first "=" of a line, 0 if there is none. *)
FirstEq(line) ==
    IF \E i \in DOMAIN line : line[i] = "="
      THEN CHOOSE i \in DOMAIN line :
             /\ line[i] = "="
             /\ \A j \in 1..(i - 1) : line[j] # "="
      ELSE 0

(* The cleaned value a line of ~/.env gives for the key; << >> when the    *)
(* line is skipped or the value is empty.                                  *)
LineKey(raw_line) ==
    LET line == Strip(raw_line)
        eq == FirstEq(line)
        var_name == SubSeq(line, 1, eq - 1)
        var_value == SubSeq(line, eq + 1, Len(line))
    IN  IF line = << >> \/ Head(line) = "#" \/ eq = 0 THEN << >>
        ELSE IF Strip(var_name) # << KeyName >> THEN << >>
        ELSE StripCh(StripCh(Strip(var_value), "'"), "\"")

(* The first non-empty cleaned value among the lines. *)
RECURSIVE FileKey(_)
FileKey(lines) ==
    IF lines = << >> THEN << >>
    ELSE IF LineKey(Head(lines)) # << >> THEN LineKey(Head(lines))
    ELSE FileKey(Tail(lines))

(* Variant: an empty environment value counts as a key. *)
EnvKeySet ==
    env_key # None

(* key = os.getenv(...); if key: *)
EnvKeyFound ==
    Truthy(env_key)

HomeKeyFound ==
    home_env.exists /\ FileKey(home_env.lines) # << >>

(* load_api_key() returns a key; otherwise it raises RuntimeError. *)
LoadApiKey ==
    EnvKeyFound \/ HomeKeyFound

-----------------------------------------------------------------------------
(* Inputs: the command line, the credential sources, and what the          *)
(* environment supplies during the run (frames from the microphone,        *)
(* events from the remote endpoint, ticks of the loop clock).              *)

CommitChoices ==
    { << "vad", 0 >>, << "manual", 1 >>, << "manual", 2 >> }

PreviousTextChoices ==
    { None, "", "ctx" }

Args(cs, prev, list) ==
    [ commit_strategy |-> cs[1], manual_commit_secs |-> cs[2],
      previous_text |-> prev, list_devices |-> list,
      sample_rate |-> DefaultSampleRate ]

Run(a, deps, ek, hk, f, e, t) ==
    [ args |-> a, missing_deps |-> deps, env_key |-> ek, home_env |-> hk,
      frames |-> f, events |-> e, ticks |-> t ]

DefaultArgs ==
    Args(<< "vad", 2 >>, None, FALSE)

NoFile ==
    [ exists |-> FALSE, lines |-> << >> ]

File(lines) ==
    [ exists |-> TRUE, lines |-> lines ]

SimpleFile ==
    File(<< << KeyName, "=", "s", "k" >> >>)

(* Files ~/.env without a usable entry for the key, and with one. *)
HomeEnvChoices ==
    { NoFile,
      File(<< >>),
      File(<< << "#", " ", KeyName, "=", "s", "k" >> >>),
      File(<< << "OTHER", "=", "v" >>, << " " >> >>),
      File(<< << KeyName >> >>),
      File(<< << KeyName, "=", "'", "'" >>, << KeyName, "=", " " >> >>),
      SimpleFile,
      File(<< << "OTHER", "=", "v" >>,
              << " ", KeyName, " ", "=", " ", "\"", "s", "=", "k", "\"", " " >> >>) }

StartupRuns ==
    { Run(Args(<< "vad", 2 >>, None, l), d, ek, hk, 1, 1, 0) :
        l \in BOOLEAN, d \in BOOLEAN, ek \in { None, "", "sk" },
        hk \in { NoFile, SimpleFile } }

CredentialRuns ==
    { Run(DefaultArgs, FALSE, ek, hk, 1, 0, 0) :
        ek \in { None, "" }, hk \in HomeEnvChoices }

OverflowRuns ==
    { Run(Args(cs, prev, FALSE), FALSE, "sk", NoFile, MaxFrames, 0, 0) :
        cs \in { << "manual", 1 >> }, prev \in { "ctx" } }

TimingRuns ==
    { Run(Args(cs, prev, FALSE), FALSE, "sk", NoFile, FewFrames, 0, MaxTime) :
        cs \in CommitChoices, prev \in PreviousTextChoices }

ReceiverRuns ==
    { Run(DefaultArgs, FALSE, "sk", NoFile, 0, MaxEvents, 0) }

Runs ==
    StartupRuns \cup CredentialRuns \cup OverflowRuns \cup TimingRuns
    \cup ReceiverRuns

RunsOf(runs) ==
    \E r \in runs :
        /\ args = r.args
        /\ missing_deps = r.missing_deps
        /\ env_key = r.env_key
        /\ home_env = r.home_env
        /\ budget = [ frames |-> r.frames, events |-> r.events, ticks |-> r.ticks ]
        /\ pc = "main"
        /\ exc = None
        /\ exit_code = << >>
        /\ connects = 0
        /\ connect_log = << >>
        /\ conn = "none"
        /\ close_calls = 0
        /\ stream_active = FALSE
        /\ clock = 0
        /\ captured = 0
        /\ handoff = << >>
        /\ audio_queue = << >>
        /\ queue_error = FALSE
        /\ evicted = { }
        /\ pc_send = "idle"
        /\ chunk = 0
        /\ payload = << >>
        /\ first_chunk = TRUE
        /\ last_commit_at = 0
        /\ send_started_at = 0
        /\ sent = << >>
        /\ sent_at = << >>
        /\ pc_recv = "idle"
        /\ partial_line_active = FALSE
        /\ received = << >>
        /\ out = << >>

-----------------------------------------------------------------------------
(* main() and run(): start-up, connection, tear-down.                      *)

LoopRunning ==
    pc \in { "connect", "connect_retry", "gather", "closing" }

(* Variant: only a normal return of run() maps to 0. *)
ExitCodeOnlyNormal(e) ==
    IF e = None THEN 0 ELSE 1

ExitCodeFor(e) ==
    IF e \in { None, "KeyboardInterrupt" } THEN 0 ELSE 1

(* main(): MISSING_DEPS is not empty, return 1. *)
MainMissingDeps ==
    /\ pc = "main"
    /\ missing_deps
    /\ pc' = "done"
    /\ exit_code' = << 1 >>
    /\ UNCHANGED << exc, connects, connect_log, conn, close_calls, stream_active >>
    /\ UNCHANGED << inputVars, clock, captureVars, queueVars, senderVars, receiverVars >>

(* Variant: --list-devices is honoured before the dependency check. *)
ListDevicesFirst ==
    /\ pc = "main"
    /\ args.list_devices
    /\ pc' = "done"
    /\ exit_code' = << 0 >>
    /\ UNCHANGED << exc, connects, connect_log, conn, close_calls, stream_active >>
    /\ UNCHANGED << inputVars, clock, captureVars, queueVars, senderVars, receiverVars >>

(* main(): --list-devices, return 0. *)
MainListDevices ==
    /\ pc = "main"
    /\ ~missing_deps
    /\ args.list_devices
    /\ pc' = "done"
    /\ exit_code' = << 0 >>
    /\ UNCHANGED << exc, connects, connect_log, conn, close_calls, stream_active >>
    /\ UNCHANGED << inputVars, clock, captureVars, queueVars, senderVars, receiverVars >>

(* main() calls asyncio.run(run(args)); run() starts with load_api_key(),  *)
(* which raises RuntimeError when no key is found.                         *)
RunLoadApiKey ==
    /\ pc = "main"
    /\ ~missing_deps
    /\ ~args.list_devices
    /\ IF ~LoadApiKey
         THEN /\ exc' = "RuntimeError"
              /\ pc' = "unwind"
         ELSE /\ exc' = exc
              /\ pc' = "connect"
    /\ UNCHANGED << exit_code, connects, connect_log, conn, close_calls, stream_active >>
    /\ UNCHANGED << inputVars, clock, captureVars, queueVars, senderVars, receiverVars >>

(* Variant: any failure of the first call leads to the second.             *)
RetriesAfterAny(outcome) ==
    outcome # "ok"

(* except TypeError: only this failure of the first call is handled.       *)
RetriesAfter(outcome) ==
    outcome = "TypeError"

(* First call shape of websockets.connect (additional_headers): it opens   *)
(* the connection, raises TypeError, or fails otherwise.                   *)
ConnectFirst ==
    /\ pc = "connect"
    /\ connects' = connects + 1
    /\ \E outcome \in { "ok", "TypeError", "error" } :
         /\ connect_log' = Append(connect_log, outcome)
         /\ CASE outcome = "ok" ->
                /\ conn' = "open"
                /\ pc' = "try"
                /\ exc' = exc
           [] RetriesAfter(outcome) ->
                /\ conn' = conn
                /\ pc' = "connect_retry"
                /\ exc' = exc
           [] OTHER ->
                /\ conn' = conn
                /\ pc' = "unwind"
                /\ exc' = "Exception"
    /\ UNCHANGED << exit_code, close_calls, stream_active >>
    /\ UNCHANGED << inputVars, clock, captureVars, queueVars, senderVars, receiverVars >>

(* Second call shape (extra_headers), tried after a TypeError only.        *)
ConnectSecond ==
    /\ pc = "connect_retry"
    /\ connects' = connects + 1
    /\ \E outcome \in { "ok", "error" } :
         /\ connect_log' = Append(connect_log, outcome)
         /\ IF outcome = "ok"
           THEN /\ conn' = "open"
                /\ pc' = "try"
                /\ exc' = exc
           ELSE /\ conn' = conn
                /\ pc' = "unwind"
                /\ exc' = "Exception"
    /\ UNCHANGED << exit_code, close_calls, stream_active >>
    /\ UNCHANGED << inputVars, clock, captureVars, queueVars, senderVars, receiverVars >>

(* try: the stream is created and started, gather() creates both tasks and *)
(* run() suspends on it.  If the stream cannot be opened the finally       *)
(* clause calls websocket.close() at once.                                 *)
OpenStream ==
    /\ pc = "try"
    /\ \E ok \in BOOLEAN :
         IF ok
           THEN /\ stream_active' = TRUE
                /\ pc' = "gather"
                /\ pc_send' = "start"
                /\ pc_recv' = "recv"
                /\ UNCHANGED << exc, close_calls, conn >>
           ELSE /\ exc' = "Exception"
                /\ close_calls' = close_calls + 1
                /\ conn' = "closing"
                /\ pc' = "closing"
                /\ UNCHANGED << stream_active, pc_send, pc_recv >>
    /\ UNCHANGED << exit_code, connects, connect_log >>
    /\ UNCHANGED << inputVars, clock, captureVars, queueVars >>
    /\ UNCHANGED << chunk, payload, first_chunk, last_commit_at, send_started_at, sent, sent_at >>
    /\ UNCHANGED << partial_line_active, received, out >>

(* Variant: gather() ends as soon as one task has ended in any way.        *)
GatherEndsOnFirstDone ==
    pc_send = "failed" \/ pc_recv \in { "failed", "ended" }

(* await asyncio.gather(send, receive) raises when a task has raised; a    *)
(* task that returned leaves it waiting for the other.                     *)
GatherRaises ==
    pc_send = "failed" \/ pc_recv = "failed"

(* Variant: the exception leaves run() without the finally clause. *)
GatherRaiseNoClose ==
    /\ pc = "gather"
    /\ GatherRaises
    /\ exc' = "Exception"
    /\ stream_active' = FALSE
    /\ pc' = "unwind"
    /\ UNCHANGED << exit_code, connects, connect_log, conn, close_calls >>
    /\ UNCHANGED << inputVars, clock, captureVars, queueVars, senderVars, receiverVars >>

(* gather() re-raises the first exception of a task in run(): the with     *)
(* block stops the stream, the finally clause calls websocket.close().     *)
(* The other task is not cancelled by gather and keeps running.            *)
GatherRaise ==
    /\ pc = "gather"
    /\ GatherRaises
    /\ exc' = "Exception"
    /\ stream_active' = FALSE
    /\ close_calls' = close_calls + 1
    /\ conn' = "closing"
    /\ pc' = "closing"
    /\ UNCHANGED << exit_code, connects, connect_log >>
    /\ UNCHANGED << inputVars, clock, captureVars, queueVars, senderVars, receiverVars >>

Cancelled(p) ==
    IF p \in { "start", "get", "send", "recv" } THEN "cancelled" ELSE p

(* Operator interrupt while run() is suspended on gather(): both tasks are *)
(* cancelled, the with block stops the stream, the finally clause calls    *)
(* websocket.close().                                                      *)
Interrupt ==
    /\ pc = "gather"
    /\ exc' = "KeyboardInterrupt"
    /\ pc_send' = Cancelled(pc_send)
    /\ pc_recv' = Cancelled(pc_recv)
    /\ stream_active' = FALSE
    /\ close_calls' = close_calls + 1
    /\ conn' = "closing"
    /\ pc' = "closing"
    /\ UNCHANGED << exit_code, connects, connect_log >>
    /\ UNCHANGED << inputVars, clock, captureVars, queueVars >>
    /\ UNCHANGED << chunk, payload, first_chunk, last_commit_at, send_started_at, sent, sent_at >>
    /\ UNCHANGED << partial_line_active, received, out >>

(* Operator interrupt while run() awaits websockets.connect or             *)
(* websocket.close(): the await is abandoned.                              *)
InterruptAwait ==
    /\ pc \in { "connect", "connect_retry", "closing" }
    /\ exc' = "KeyboardInterrupt"
    /\ pc' = "unwind"
    /\ UNCHANGED << exit_code, connects, connect_log, conn, close_calls, stream_active >>
    /\ UNCHANGED << inputVars, clock, captureVars, queueVars, senderVars, receiverVars >>

(* websocket.close() completes and the exception leaves run().             *)
CloseDone ==
    /\ pc = "closing"
    /\ conn' = "closed"
    /\ pc' = "unwind"
    /\ UNCHANGED << exc, exit_code, connects, connect_log, close_calls, stream_active >>
    /\ UNCHANGED << inputVars, clock, captureVars, queueVars, senderVars, receiverVars >>

(* asyncio.run() cancels the tasks that are left and closes the loop;      *)
(* main() maps the exception to its return value.                          *)
MainReturn ==
    /\ pc = "unwind"
    /\ pc_send' = Cancelled(pc_send)
    /\ pc_recv' = Cancelled(pc_recv)
    /\ exit_code' = << ExitCodeFor(exc) >>
    /\ pc' = "done"
    /\ UNCHANGED << exc, connects, connect_log, conn, close_calls, stream_active >>
    /\ UNCHANGED << inputVars, clock, captureVars, queueVars >>
    /\ UNCHANGED << chunk, payload, first_chunk, last_commit_at, send_started_at, sent, sent_at >>
    /\ UNCHANGED << partial_line_active, received, out >>

(* The loop clock advances. *)
Tick ==
    /\ LoopRunning
    /\ clock < budget.ticks
    /\ clock' = clock + 1
    /\ UNCHANGED << inputVars, mainVars, captureVars, queueVars, senderVars, receiverVars >>

-----------------------------------------------------------------------------
(* Capture callback and the bounded queue.                                 *)

TasksRunning ==
    pc \in { "gather", "closing" }

(* on_audio, on the capture thread: the frame is handed to the event loop  *)
(* with loop.call_soon_threadsafe(enqueue).                                *)
OnAudio ==
    /\ stream_active
    /\ captured < budget.frames
    /\ Len(handoff) < MaxPending
    /\ captured' = captured + 1
    /\ handoff' = Append(handoff, captured + 1)
    /\ UNCHANGED << inputVars, mainVars, clock, queueVars, senderVars, receiverVars >>

(* Variant: the queue counts as full one entry late. *)
FullOffByOne(q) ==
    IF QueueMaxSize <= 0 THEN FALSE ELSE Len(q) > QueueMaxSize

(* asyncio.Queue.full() *)
Full(q) ==
    IF QueueMaxSize <= 0 THEN FALSE ELSE Len(q) >= QueueMaxSize

(* Variant: an entry is evicted one entry before the queue is full. *)
EvictsEarly(q) ==
    Len(q) >= QueueMaxSize - 1 /\ q # << >>

(* if audio_queue.full(): try get_nowait() except QueueEmpty: pass *)
Evicts(q) ==
    Full(q) /\ q # << >>

(* Variant: the newest entry is discarded instead of the oldest. *)
EvictNewest(q) ==
    IF Evicts(q) THEN SubSeq(q, 1, Len(q) - 1) ELSE q

EvictIfFull(q) ==
    IF Evicts(q) THEN Tail(q) ELSE q

(* put_nowait(c) raises QueueFull on a full queue *)
PutRaises(q) ==
    Full(q)

(* Variant: the new entry goes to the front. *)
PutFront(q, c) ==
    IF PutRaises(q) THEN q ELSE << c >> \o q

PutNowait(q, c) ==
    IF PutRaises(q) THEN q ELSE Append(q, c)

(* enqueue(), run by the event loop as one callback. *)
Enqueue ==
    /\ TasksRunning
    /\ handoff # << >>
    /\ handoff' = Tail(handoff)
    /\ audio_queue' = PutNowait(EvictIfFull(audio_queue), Head(handoff))
    /\ queue_error' = (queue_error \/ PutRaises(EvictIfFull(audio_queue)))
    /\ evicted' = IF Evicts(audio_queue)
                    THEN evicted \cup { Head(audio_queue) }
                    ELSE evicted
    /\ UNCHANGED << inputVars, mainVars, clock, captured, senderVars, receiverVars >>

-----------------------------------------------------------------------------
(* send_audio                                                              *)

(* first_chunk = True; last_commit_at = loop.time() *)
SenderStart ==
    /\ TasksRunning
    /\ pc_send = "start"
    /\ first_chunk' = TRUE
    /\ last_commit_at' = clock
    /\ send_started_at' = clock
    /\ pc_send' = "get"
    /\ UNCHANGED << chunk, payload, sent, sent_at >>
    /\ UNCHANGED << inputVars, mainVars, clock, captureVars, queueVars, receiverVars >>

BasePayload(c) ==
    [ message_type |-> "input_audio_chunk",
      audio_base_64 |-> B64(c),
      sample_rate |-> args.sample_rate ]

ShouldCommit(now) ==
    (now - last_commit_at) >= args.manual_commit_secs

(* Variant: the commit field is attached under every strategy. *)
AlwaysUsesCommit ==
    TRUE

UsesCommit ==
    args.commit_strategy = "manual"

(* Variant: previous_text is attached to every message. *)
AttachPreviousAlways ==
    Truthy(args.previous_text)

AttachPrevious ==
    first_chunk /\ Truthy(args.previous_text)

BuildPayload(c, now) ==
    LET p0 == BasePayload(c)
        p1 == IF UsesCommit THEN p0 @@ ("commit" :> ShouldCommit(now)) ELSE p0
    IN  IF AttachPrevious THEN p1 @@ ("previous_text" :> args.previous_text) ELSE p1

(* Variant: every message resets the reference time. *)
AlwaysResetCommitAt(now) ==
    IF UsesCommit THEN now ELSE last_commit_at

NextLastCommitAt(now) ==
    IF UsesCommit /\ ShouldCommit(now) THEN now ELSE last_commit_at

(* asyncio.Queue.get() returns the oldest entry and removes it. *)
QueueFront(q) ==
    Head(q)

(* Variant: the entry is read but left in the queue. *)
QueuePeek(q) ==
    q

QueueRest(q) ==
    Tail(q)

(* Variant: get() holds back the last frame of the queue. *)
GetNeedsTwo(q) ==
    Len(q) >= 2

(* audio_queue.get() suspends the task until the queue holds a frame. *)
GetReady(q) ==
    q # << >>

(* Variant: the loop goes on after a failed send. *)
AwaitingFrameOrFailed ==
    pc_send \in { "get", "failed" }

(* send_audio is at "chunk = await audio_queue.get()". *)
AwaitingFrame ==
    pc_send = "get"

(* chunk = await audio_queue.get(); the payload is built and handed to     *)
(* websocket.send in the same step of the task.                            *)
Dequeue ==
    /\ TasksRunning
    /\ AwaitingFrame
    /\ GetReady(audio_queue)
    /\ chunk' = QueueFront(audio_queue)
    /\ audio_queue' = QueueRest(audio_queue)
    /\ payload' = BuildPayload(QueueFront(audio_queue), clock)
    /\ last_commit_at' = NextLastCommitAt(clock)
    /\ sent' = Append(sent, payload')
    /\ sent_at' = Append(sent_at, clock)
    /\ pc_send' = "send"
    /\ UNCHANGED << first_chunk, send_started_at, queue_error, evicted >>
    /\ UNCHANGED << inputVars, mainVars, clock, captureVars, receiverVars >>

(* await websocket.send(...) returns; first_chunk = False *)
SendOk ==
    /\ TasksRunning
    /\ pc_send = "send"
    /\ conn = "open"
    /\ first_chunk' = FALSE
    /\ pc_send' = "get"
    /\ UNCHANGED << chunk, payload, last_commit_at, send_started_at, sent, sent_at >>
    /\ UNCHANGED << inputVars, mainVars, clock, captureVars, queueVars, receiverVars >>

(* await websocket.send(...) raises: the task ends with the exception.     *)
SendFail ==
    /\ TasksRunning
    /\ pc_send = "send"
    /\ pc_send' = "failed"
    /\ UNCHANGED << chunk, payload, first_chunk, last_commit_at, send_started_at, sent, sent_at >>
    /\ UNCHANGED << inputVars, mainVars, clock, captureVars, queueVars, receiverVars >>

-----------------------------------------------------------------------------
(* receive_events                                                          *)

Texts ==
    { << " " >>, << " ", "h", "i", " " >> }

OtherTypes ==
    { "pong" }

(* The inbound events of the model: JSON objects with a message_type (or   *)
(* none) and, for transcripts, a text (or none).                           *)
InboundEvents ==
    { [ message_type |-> "session_started", session_id |-> "s1" ] }
    \cup { [ message_type |-> t, text |-> x ] :
             t \in { "partial_transcript" } \cup TranscriptTypes, x \in Texts }
    \cup { [ message_type |-> t ] :
             t \in { "partial_transcript" } \cup ErrorTypes \cup OtherTypes }
    \cup { [ detail |-> "x" ] }

SessionLine(event) ==
    [ kind |-> "session" ]

PartialWrite(text) ==
    [ kind |-> "partial", text |-> text ]

Newline ==
    [ kind |-> "newline" ]

FinalLine(text) ==
    [ kind |-> "final", text |-> text ]

RawLine(msg_type, event) ==
    [ kind |-> "raw", msg_type |-> msg_type, event |-> event ]

(* Variant: the partial line is never terminated. *)
NeverEndPartial(active) ==
    << >>

EndPartial(active) ==
    IF active THEN << Newline >> ELSE << >>

(* Variant: events of an unknown type are dropped. *)
DropUnknown(msg_type, event) ==
    << >>

(* print(f"[{msg_type}] {event}") for an event no branch recognised. *)
UnknownWrites(msg_type, event) ==
    << RawLine(msg_type, event) >>

(* Variant: an error event leaves the flag as it is. *)
KeepActive(active) ==
    active

(* partial_line_active after an error event. *)
ErrorNextActive(active) ==
    FALSE

(* The terminal writes one inbound event causes, given partial_line_active. *)
Writes(event, active) ==
    LET msg_type == MsgType(event)
        text == Strip(EventText(event))
    IN  CASE msg_type = "session_started" ->
               << SessionLine(event) >>
          [] msg_type = "partial_transcript" ->
               IF text # << >> THEN << PartialWrite(text) >> ELSE << >>
          [] msg_type \in TranscriptTypes ->
               IF text # << >>
                 THEN EndPartial(active) \o << FinalLine(text) >>
                 ELSE << >>
          [] ContainsError(msg_type) ->
               EndPartial(active) \o << RawLine(msg_type, event) >>
          [] OTHER ->
               UnknownWrites(msg_type, event)

(* partial_line_active after the event. *)
NextActive(event, active) ==
    LET msg_type == MsgType(event)
        text == Strip(EventText(event))
    IN  CASE msg_type = "session_started" -> active
          [] msg_type = "partial_transcript" ->
               IF text # << >> THEN TRUE ELSE active
          [] msg_type \in TranscriptTypes ->
               IF text # << >> THEN FALSE ELSE active
          [] ContainsError(msg_type) -> ErrorNextActive(active)
          [] OTHER -> active

(* One iteration of "async for message in websocket".                      *)
Receive ==
    /\ TasksRunning
    /\ pc_recv = "recv"
    /\ conn \in { "open", "closing" }
    /\ Len(received) < budget.events
    /\ \E event \in InboundEvents :
         /\ received' = Append(received, event)
         /\ out' = out \o Writes(event, partial_line_active)
         /\ partial_line_active' = NextActive(event, partial_line_active)
    /\ UNCHANGED pc_recv
    /\ UNCHANGED << inputVars, mainVars, clock, captureVars, queueVars, senderVars >>

(* The inbound stream ends normally: the loop and the task end.            *)
RecvEnd ==
    /\ TasksRunning
    /\ pc_recv = "recv"
    /\ pc_recv' = "ended"
    /\ conn' = IF conn = "open" THEN "remote_closed" ELSE conn
    /\ UNCHANGED << pc, exc, exit_code, connects, connect_log, close_calls, stream_active >>
    /\ UNCHANGED << partial_line_active, received, out >>
    /\ UNCHANGED << inputVars, clock, captureVars, queueVars, senderVars >>

(* Receiving raises (connection lost, or a message that is not JSON): the  *)
(* task ends with the exception.                                           *)
RecvFail ==
    /\ TasksRunning
    /\ pc_recv = "recv"
    /\ pc_recv' = "failed"
    /\ \E lost \in BOOLEAN :
         conn' = IF lost /\ conn = "open" THEN "remote_closed" ELSE conn
    /\ UNCHANGED << pc, exc, exit_code, connects, connect_log, close_calls, stream_active >>
    /\ UNCHANGED << partial_line_active, received, out >>
    /\ UNCHANGED << inputVars, clock, captureVars, queueVars, senderVars >>

-----------------------------------------------------------------------------

Next ==
    \/ MainMissingDeps
    \/ MainListDevices
    \/ RunLoadApiKey
    \/ ConnectFirst
    \/ ConnectSecond
    \/ OpenStream
    \/ GatherRaise
    \/ Interrupt
    \/ InterruptAwait
    \/ CloseDone
    \/ MainReturn
    \/ Tick
    \/ OnAudio
    \/ Enqueue
    \/ SenderStart
    \/ Dequeue
    \/ SendOk
    \/ SendFail
    \/ Receive
    \/ RecvEnd
    \/ RecvFail

Init ==
    RunsOf(Runs)

Spec ==
    Init /\ [][Next]_vars

(* The runs of the liveness check: the sender against a capture that       *)
(* overflows the queue, and short runs that end at startup or exchange an  *)
(* event.                                                                  *)
LiveRuns ==
    OverflowRuns
    \cup { Run(Args(<< "vad", 2 >>, None, l), d, "sk", NoFile, 1, 1, 1) :
             l \in BOOLEAN, d \in BOOLEAN }

LiveInit ==
    RunsOf(LiveRuns)

(* The event loop runs a task that is ready: the sender task starts, takes *)
(* a frame when the queue holds one, and goes on when a send has returned. *)
(* A send on a connection that stays open returns.                         *)
SenderFairness ==
    /\ WF_vars(SenderStart)
    /\ WF_vars(Dequeue)
    /\ WF_vars(SendOk)

LiveSpec ==
    LiveInit /\ [][Next]_vars /\ SenderFairness

-----------------------------------------------------------------------------
(* Derived views used by the properties.                                   *)

Range(q) ==
    { q[i] : i \in DOMAIN q }

(* Frames that enqueue() has processed: 1 .. Enqueued. *)
Enqueued ==
    captured - Len(handoff)

(* Capture number of the frame a message carries. *)
Frame(m) ==
    m.audio_base_64[2]

SentFrames ==
    [ i \in DOMAIN sent |-> Frame(sent[i]) ]

HasCommit(m) ==
    "commit" \in DOMAIN m

HasPrevious(m) ==
    "previous_text" \in DOMAIN m

(* Time of the last commit=true message before message i, or the time the  *)
(* sender loop started.                                                    *)
RECURSIVE ReferenceTime(_)
ReferenceTime(i) ==
    IF i <= 1 THEN send_started_at
    ELSE IF HasCommit(sent[i - 1]) /\ sent[i - 1].commit THEN sent_at[i - 1]
    ELSE ReferenceTime(i - 1)

-----------------------------------------------------------------------------
(* C1: in every reachable state the audio queue holds at most its fixed    *)
(* capacity (32) of frames, whatever the interleaving of enqueues and      *)
(* dequeues.                                                               *)
C1_QueueBounded ==
    Len(audio_queue) <= QueueMaxSize

(* The queue is at capacity after enqueues, an eviction and a dequeue.     *)
C1_Witness ==
    /\ Len(audio_queue) = QueueMaxSize
    /\ evicted # { }
    /\ sent # << >>

(* C2: after N > C enqueues with no dequeue, the queue holds exactly the C *)
(* most recently enqueued frames in their original order: frames           *)
(* N-C+1 .. N.                                                             *)
C2_KeepsNewest ==
    (Enqueued > QueueMaxSize /\ sent = << >>) =>
        audio_queue = [ i \in 1..QueueMaxSize |-> Enqueued - QueueMaxSize + i ]

(* Two more frames than the capacity were enqueued and none was dequeued.  *)
C2_Witness ==
    /\ Enqueued = QueueMaxSize + 2
    /\ sent = << >>
    /\ evicted = { 1, 2 }

(* C3: under "manual" every message carries commit, and commit is true     *)
(* exactly when the time read after dequeuing the frame minus the time of  *)
(* the last commit=true message (or the start of the sender loop) is at    *)
(* least manual_commit_secs; the reference time kept by the loop is the    *)
(* dequeue time of the last commit=true message, unchanged by the others.  *)
C3_ManualCommit ==
    args.commit_strategy = "manual" =>
        /\ \A i \in DOMAIN sent :
             /\ HasCommit(sent[i])
             /\ sent[i].commit =
                  ((sent_at[i] - ReferenceTime(i)) >= args.manual_commit_secs)
        /\ pc_send # "idle" /\ pc_send # "start" =>
             last_commit_at = ReferenceTime(Len(sent) + 1)

(* A commit, then a message too early to commit, then a commit again.      *)
C3_Witness ==
    /\ args.commit_strategy = "manual"
    /\ Len(sent) = 3
    /\ sent[1].commit
    /\ ~sent[2].commit
    /\ sent[3].commit
    /\ sent_at[1] > send_started_at

(* C4: under "vad" no outbound message has a commit field, whatever the    *)
(* elapsed time and manual_commit_secs.                                    *)
C4_VadNoCommit ==
    args.commit_strategy = "vad" =>
        \A i \in DOMAIN sent : ~HasCommit(sent[i])

(* Under "vad", messages were sent after the threshold had elapsed.        *)
C4_Witness ==
    /\ args.commit_strategy = "vad"
    /\ Len(sent) >= 2
    /\ sent_at[2] - send_started_at >= args.manual_commit_secs
    /\ sent_at[2] > send_started_at

(* C5: previous_text is on the first message exactly when a non-empty      *)
(* previous_text was configured, and on no later message.                  *)
C5_PreviousTextFirstOnly ==
    \A i \in DOMAIN sent :
        /\ HasPrevious(sent[i]) <=> (i = 1 /\ Truthy(args.previous_text))
        /\ HasPrevious(sent[i]) => sent[i].previous_text = args.previous_text

(* A configured previous_text and at least two messages.                   *)
C5_Witness ==
    /\ args.previous_text = "ctx"
    /\ Len(sent) >= 2
    /\ HasPrevious(sent[1])

(* C6: one message per frame the sender took from the queue, in that       *)
(* order; the frames sent are in capture order with none sent twice.       *)
C6_SentInCaptureOrder ==
    /\ \A i \in DOMAIN sent :
         i + 1 \in DOMAIN sent => Frame(sent[i]) < Frame(sent[i + 1])
    /\ Range(SentFrames) = (1..Enqueued) \ (evicted \cup Range(audio_queue))
    /\ sent # << >> => chunk = Frame(Last(sent))

(* Frames were sent on both sides of an evicted frame.                     *)
C6_Witness ==
    \E i \in DOMAIN sent :
        /\ i + 1 \in DOMAIN sent
        /\ Frame(sent[i + 1]) > Frame(sent[i]) + 1
        /\ Frame(sent[i]) + 1 \in evicted

-----------------------------------------------------------------------------
(* Classes of inbound events the properties speak of.                      *)

IsPartial(e) ==
    MsgType(e) = "partial_transcript" /\ Strip(EventText(e)) # << >>

IsCommitted(e) ==
    /\ MsgType(e) \in { "committed_transcript", "committed_transcript_with_timestamps" }
    /\ Strip(EventText(e)) # << >>

IsErrorEvent(e) ==
    ContainsError(MsgType(e))

IsUnrecognised(e) ==
    /\ MsgType(e) \notin { "session_started", "partial_transcript",
                           "committed_transcript",
                           "committed_transcript_with_timestamps" }
    /\ ~ContainsError(MsgType(e))

FinalLines ==
    { i \in DOMAIN out : out[i].kind = "final" }

CommittedEvents ==
    { i \in DOMAIN received : IsCommitted(received[i]) }

(* received is one or more non-empty partials, then one non-empty commit.  *)
PartialsThenCommitted ==
    /\ Len(received) >= 2
    /\ IsCommitted(Last(received))
    /\ \A i \in 1..(Len(received) - 1) : IsPartial(received[i])

(* C7: partials followed by a non-empty committed transcript T are written *)
(* as in-place partial writes, then exactly one newline, then exactly one  *)
(* finalized line for T; and the number of finalized lines always equals   *)
(* the number of committed events with non-empty stripped text.            *)
C7_PartialsThenFinal ==
    /\ Cardinality(FinalLines) = Cardinality(CommittedEvents)
    /\ PartialsThenCommitted =>
         out = [ i \in 1..(Len(received) - 1) |->
                   [ kind |-> "partial", text |-> Strip(EventText(received[i])) ] ]
               \o << [ kind |-> "newline" ],
                     [ kind |-> "final", text |-> Strip(EventText(Last(received))) ] >>

(* Two partials, then a committed transcript, have been rendered.          *)
C7_Witness ==
    /\ Len(received) = 3
    /\ PartialsThenCommitted
    /\ Len(out) = 4

(* C8: an event whose message_type is neither recognised nor contains      *)
(* "error" (a missing message_type included) is printed as a raw event,    *)
(* and the receiver stays in its loop, ready for the next event.           *)
C8_UnknownRendered ==
    [][ (received' # received /\ IsUnrecognised(Last(received'))) =>
          /\ out' = Append(out, [ kind |-> "raw",
                                  msg_type |-> MsgType(Last(received')),
                                  event |-> Last(received') ])
          /\ pc_recv' = "recv" ]_vars

(* An event without message_type was rendered and another event followed.  *)
C8_Witness ==
    /\ Len(received) >= 2
    /\ "message_type" \notin DOMAIN received[1]
    /\ IsUnrecognised(received[1])
    /\ out # << >>
    /\ out[1].kind = "raw"

(* C9: an event whose message_type contains "error" ends the partial line  *)
(* if one is active and clears the flag, prints the raw event, and the     *)
(* receiver stays in its loop; the sender task, the connection and the     *)
(* process are left as they are.                                           *)
C9_ErrorNotFatal ==
    [][ (received' # received /\ IsErrorEvent(Last(received'))) =>
          /\ out' = out
                    \o (IF partial_line_active THEN << [ kind |-> "newline" ] >>
                                               ELSE << >>)
                    \o << [ kind |-> "raw",
                            msg_type |-> MsgType(Last(received')),
                            event |-> Last(received') ] >>
          /\ partial_line_active' = FALSE
          /\ pc_recv' = "recv"
          /\ UNCHANGED senderVars
          /\ UNCHANGED << pc, exc, exit_code, conn, close_calls, stream_active >> ]_vars

(* An error event arrived while a partial line was active, and another     *)
(* event was processed after it.                                           *)
C9_Witness ==
    /\ Len(received) = 3
    /\ IsPartial(received[1])
    /\ IsErrorEvent(received[2])
    /\ Len(out) >= 3
    /\ out[2].kind = "newline"
    /\ out[3].kind = "raw"

(* C10: after an operator interrupt that arrived while the connection was  *)
(* open, websocket.close() has been called exactly once, and main()        *)
(* returns 0.                                                              *)
C10_InterruptClean ==
    (exc = "KeyboardInterrupt" /\ conn # "none") =>
        /\ close_calls = 1
        /\ pc = "done" => exit_code = << 0 >>

(* The interrupt cancelled a sender that was awaiting a send and a         *)
(* receiver that was awaiting a message; the process has exited.           *)
C10_Witness ==
    /\ pc = "done"
    /\ exc = "KeyboardInterrupt"
    /\ conn = "closed"
    /\ pc_send = "cancelled"
    /\ pc_recv = "cancelled"
    /\ sent # << >>
    /\ first_chunk

-----------------------------------------------------------------------------
(* What a line of ~/.env says once blanks and quotes are ignored.          *)
Significant(line) ==
    SelectSeq(line, LAMBDA t : t \notin { " ", "'", "\"" })

(* The line assigns a non-empty value to the key. *)
HasEntry(line) ==
    /\ Len(Significant(line)) >= 3
    /\ Significant(line)[1] = KeyName
    /\ Significant(line)[2] = "="

(* The key is in neither the environment nor ~/.env. *)
KeyAbsent ==
    /\ env_key \in { None, "" }
    /\ \/ ~home_env.exists
       \/ \A i \in DOMAIN home_env.lines : ~HasEntry(home_env.lines[i])

(* C11: when the key is absent from the environment and from ~/.env, run() *)
(* raises the configuration error before any connection attempt, before    *)
(* the stream is opened and before any frame is captured or enqueued, and  *)
(* main() returns 1.                                                       *)
C11_MissingKeyFailsEarly ==
    (KeyAbsent /\ ~missing_deps /\ ~args.list_devices) =>
        /\ connects = 0
        /\ connect_log = << >>
        /\ conn = "none"
        /\ ~stream_active
        /\ captured = 0
        /\ audio_queue = << >>
        /\ pc \in { "main", "unwind", "done" }
        /\ pc # "main" => exc = "RuntimeError"
        /\ pc = "done" => exit_code = << 1 >>

(* The process has exited on a ~/.env that exists, has lines, and holds no *)
(* entry for the key.                                                      *)
C11_Witness ==
    /\ KeyAbsent
    /\ env_key = ""
    /\ home_env.exists
    /\ Len(home_env.lines) = 2
    /\ pc = "done"
    /\ exit_code = << 1 >>
    /\ exc = "RuntimeError"

-----------------------------------------------------------------------------
(* A task ended with an exception. *)
TaskFailed ==
    pc_send = "failed" \/ pc_recv = "failed"

(* C12 as stated: once a send or a receive has failed, websocket.close()   *)
(* runs exactly once and main() returns 1.                                 *)
C12_FailureExitsOne ==
    (TaskFailed /\ pc = "done") =>
        /\ close_calls = 1
        /\ exit_code = << 1 >>

(* C12: once a send or a receive has failed, no further connection attempt *)
(* is made, websocket.close() is called exactly once when the exception    *)
(* reaches run(), and main() returns 1 -- unless the operator interrupts   *)
(* before run() has returned, in which case main() returns 0.              *)
C12_FailureClosesOnce ==
    [][ TaskFailed' =>
          /\ connects' = connects
          /\ close_calls' <= 1
          /\ pc' \in { "closing", "unwind", "done" } => close_calls' = 1
          /\ pc' = "done" =>
               /\ exc' \in { "Exception", "KeyboardInterrupt" }
               /\ exit_code' = IF exc' = "KeyboardInterrupt" THEN << 0 >>
                                                             ELSE << 1 >> ]_vars

(* A send failed on an open connection; the connection was closed and the  *)
(* process exited with 1.                                                  *)
C12_Witness ==
    /\ pc = "done"
    /\ pc_send = "failed"
    /\ pc_recv = "cancelled"
    /\ exc = "Exception"
    /\ conn = "closed"
    /\ close_calls = 1
    /\ exit_code = << 1 >>

-----------------------------------------------------------------------------
(* C13: main() returns 1 when a dependency is missing; otherwise 0 for     *)
(* --list-devices; otherwise 0 when run() stopped cleanly or by operator    *)
(* interrupt and 1 when it ended with any other exception; it returns no   *)
(* other value, and none before it is done.                                *)
C13_ExitCodes ==
    /\ pc # "done" => exit_code = << >>
    /\ pc = "done" =>
         /\ exit_code \in { << 0 >>, << 1 >> }
         /\ exit_code =
              IF missing_deps THEN << 1 >>
              ELSE IF args.list_devices THEN << 0 >>
              ELSE IF exc \in { "RuntimeError", "Exception" } THEN << 1 >>
              ELSE << 0 >>

(* Both a missing dependency and --list-devices: main() returned 1.        *)
C13_Witness ==
    /\ pc = "done"
    /\ missing_deps
    /\ args.list_devices
    /\ exit_code = << 1 >>

-----------------------------------------------------------------------------
(* C14: every enqueue, as one step of the event loop, evicts exactly the   *)
(* oldest entry if and only if the queue was at capacity, leaves the new   *)
(* frame as the newest entry, and never fails with a queue-full error,     *)
(* whatever the sender does in between.                                    *)
C14_EnqueueAtomic ==
    [][ Len(handoff') < Len(handoff) =>
          /\ ~queue_error'
          /\ Last(audio_queue') = Head(handoff)
          /\ IF Len(audio_queue) = QueueMaxSize
               THEN /\ audio_queue' = Append(Tail(audio_queue), Head(handoff))
                    /\ evicted' = evicted \cup { Head(audio_queue) }
                    /\ Head(audio_queue) \notin evicted
               ELSE /\ audio_queue' = Append(audio_queue, Head(handoff))
                    /\ evicted' = evicted
          /\ UNCHANGED senderVars ]_vars

(* An enqueue evicted the oldest entry while the sender was awaiting a     *)
(* send, and its frame is the newest entry of the full queue.              *)
C14_Witness ==
    /\ evicted # { }
    /\ Len(audio_queue) = QueueMaxSize
    /\ Last(audio_queue) = Enqueued
    /\ Head(audio_queue) = Enqueued - QueueMaxSize + 1
    /\ pc_send = "send"
    /\ ~queue_error

-----------------------------------------------------------------------------
(* C15: after a failed send the sender does nothing more: it takes no      *)
(* frame from the queue, hands no message to the connection, and keeps its *)
(* state; the failing send itself leaves first_chunk and the message log   *)
(* as they were, and first_chunk is cleared only by a send that returned.  *)
C15_SenderStopsOnFailure ==
    [][ /\ pc_send = "failed" =>
             /\ UNCHANGED senderVars
             /\ audio_queue' # audio_queue => Len(handoff') < Len(handoff)
        /\ (pc_send = "send" /\ pc_send' = "failed") =>
             /\ first_chunk' = first_chunk
             /\ sent' = sent
             /\ audio_queue' = audio_queue
        /\ (first_chunk /\ ~first_chunk') =>
             /\ pc_send = "send"
             /\ pc_send' = "get"
             /\ conn = "open" ]_vars

(* The first send failed; frames enqueued since are still in the queue     *)
(* when the process has exited.                                            *)
C15_Witness ==
    /\ pc = "done"
    /\ pc_send = "failed"
    /\ Len(sent) = 1
    /\ first_chunk
    /\ Len(audio_queue) >= 2
    /\ Head(audio_queue) = chunk + 1

-----------------------------------------------------------------------------
(* C16: websockets.connect is called at most twice; the second call comes  *)
(* only when the first one raised TypeError, never after another failure   *)
(* and never once a connection is open; the connection is opened at most   *)
(* once.                                                                   *)
C16_RetryOnlyOnTypeError ==
    [][ /\ connects' # connects =>
             /\ connects' = connects + 1
             /\ conn = "none"
             /\ \/ connects = 0
                \/ connects = 1 /\ connect_log = << "TypeError" >>
        /\ connects' <= 2
        /\ (conn' = "open" /\ conn # "open") =>
             /\ conn = "none"
             /\ connects' # connects ]_vars

(* The first shape raised TypeError and the second opened the connection.  *)
C16_Witness ==
    /\ connects = 2
    /\ connect_log = << "TypeError", "ok" >>
    /\ conn = "open"
    /\ pc = "gather"

-----------------------------------------------------------------------------
(* C18: the queued frames are consecutive frames of the capture sequence,  *)
(* oldest first, and the last of them is the frame enqueued most recently. *)
C18_QueueContiguous ==
    \A i \in DOMAIN audio_queue :
        audio_queue[i] = Enqueued - Len(audio_queue) + i

(* Frames have been evicted and the sender has taken frames since, so the  *)
(* queue is a proper window of the capture sequence.                       *)
C18_Witness ==
    /\ evicted # { }
    /\ Len(sent) >= 2
    /\ Len(audio_queue) >= 2
    /\ Len(audio_queue) < QueueMaxSize
    /\ Head(audio_queue) > 2
    /\ Last(audio_queue) = Enqueued

-----------------------------------------------------------------------------
(* The last terminal write is a partial transcript, not yet followed by a  *)
(* newline.                                                                *)
UnterminatedPartial ==
    out # << >> /\ Last(out).kind = "partial"

(* C19: partial_line_active is true exactly when the last terminal write   *)
(* is an unterminated partial transcript; every finalized line and every   *)
(* raw-event line starts on a fresh terminal line, and a newline is        *)
(* written only right after an unterminated partial transcript.            *)
C19_FlagTracksPartial ==
    /\ partial_line_active <=> UnterminatedPartial
    /\ \A i \in DOMAIN out :
         out[i].kind \in { "final", "raw" } =>
             (i = 1 \/ out[i - 1].kind # "partial")
    /\ \A i \in DOMAIN out :
         out[i].kind = "newline" =>
             (i > 1 /\ out[i - 1].kind = "partial")

(* A partial transcript, then an event of an unknown type, then a          *)
(* committed transcript: the raw line is written onto the partial line and *)
(* the newline comes after it.                                             *)
C19_Witness ==
    /\ Len(out) = 4
    /\ out[1].kind = "partial"
    /\ out[2].kind = "raw"
    /\ out[3].kind = "newline"
    /\ out[4].kind = "final"
    /\ ~partial_line_active

-----------------------------------------------------------------------------
(* C20: with the connection opened, main() returns 0 only after an         *)
(* operator interrupt.  A receiver that ended normally leaves run()        *)
(* waiting on gather() with the connection not closed by the program; the  *)
(* process then ends only after a failed send (return value 1, unless      *)
(* interrupted) or an operator interrupt (return value 0).                 *)
C20_OnlyInterruptExitsZero ==
    /\ (conn # "none" /\ exit_code = << 0 >>) => exc = "KeyboardInterrupt"
    /\ (pc_recv = "ended" /\ pc = "gather") =>
           /\ close_calls = 0
           /\ exit_code = << >>
           /\ exc = None
    /\ (pc_recv = "ended" /\ pc # "gather") =>
           \/ exc = "KeyboardInterrupt"
           \/ pc_send = "failed" /\ exc = "Exception"
    /\ (pc_recv = "ended" /\ pc = "done") =>
           exit_code = IF exc = "KeyboardInterrupt" THEN << 0 >> ELSE << 1 >>

(* The receiver ended normally; the process went on until a send failed    *)
(* and then returned 1.                                                    *)
C20_Witness ==
    /\ pc_recv = "ended"
    /\ pc_send = "failed"
    /\ Len(sent) >= 2
    /\ pc = "done"
    /\ exit_code = << 1 >>

(* The receiver ended normally and the operator interrupted later.         *)
C20_WitnessInterrupt ==
    /\ pc_recv = "ended"
    /\ pc_send = "cancelled"
    /\ pc = "done"
    /\ exit_code = << 0 >>

-----------------------------------------------------------------------------
(* The sender task is running on an open connection.                       *)
SenderAlive ==
    /\ pc = "gather"
    /\ conn = "open"
    /\ pc_send \in { "start", "get", "send" }

(* Frame f has been handed to websocket.send and that send has returned.   *)
Transmitted(f) ==
    /\ f \in Range(SentFrames)
    /\ ~(pc_send = "send" /\ chunk = f)

(* The first frame captured, which may be evicted or transmitted, and the  *)
(* last one, which no later enqueue can evict.                             *)
EndFrames ==
    { 1, MaxFrames }

(* C17: while the sender task runs on an open connection, no frame stays   *)
(* in the queue forever: the queue is emptied again and again (the capture *)
(* of a run is finite), a frame in the queue is eventually transmitted or  *)
(* evicted, a send that was started returns, and every frame the sender    *)
(* takes from the queue is handed to websocket.send in that same step.     *)
C17_FramesLeaveQueue ==
    /\ []<>(audio_queue = << >> \/ ~SenderAlive)
    /\ \A f \in EndFrames :
         (f \in Range(audio_queue)) ~>
             (Transmitted(f) \/ f \in evicted \/ ~SenderAlive)
    /\ (pc_send = "send") ~> (pc_send # "send" \/ ~SenderAlive)
    /\ [][ (audio_queue' # audio_queue /\ Len(handoff') = Len(handoff)) =>
             /\ audio_queue' = Tail(audio_queue)
             /\ sent' = Append(sent, payload')
             /\ Frame(payload') = Head(audio_queue)
             /\ pc_send' = "send" ]_vars

(* The capture overflowed the queue; every frame has since been evicted or *)
(* transmitted and the sender waits for the next one.                      *)
C17_Witness ==
    /\ SenderAlive
    /\ pc_send = "get"
    /\ captured = MaxFrames
    /\ handoff = << >>
    /\ audio_queue = << >>
    /\ evicted # { }
    /\ \A f \in 1 .. MaxFrames : Transmitted(f) \/ f \in evicted

=============================================================================
